---------------------------- MODULE Spec2Model ----------------------------
(***************************************************************************)
(* Model of src/MATT.py: the bet text parser (parse_bet_details), the row  *)
(* placement and writing of a bet (save_bet_to_google_sheets), the week    *)
(* marker (end_of_week) and the command handlers (start, bet).             *)
(*                                                                         *)
(* A Python str is a sequence of one-character strings, so that the        *)
(* regular expressions, `in`, lower(), startswith() and split() are        *)
(* computed character by character.  Python indexes are kept 0-based where *)
(* the code computes with them; rows[i] of the code is rows[i + 1] here.   *)
(***************************************************************************)
EXTENDS Integers, Sequences, FiniteSets, TLC

-----------------------------------------------------------------------------
(* Characters and str methods                                              *)

LowerChars ==
    <<"a", "b", "c", "d", "e", "f", "g", "h", "i", "j", "k", "l", "m",
      "n", "o", "p", "q", "r", "s", "t", "u", "v", "w", "x", "y", "z">>

UpperChars ==
    <<"A", "B", "C", "D", "E", "F", "G", "H", "I", "J", "K", "L", "M",
      "N", "O", "P", "Q", "R", "S", "T", "U", "V", "W", "X", "Y", "Z">>

DigitChars ==
    <<"0", "1", "2", "3", "4", "5", "6", "7", "8", "9">>

Range(f) ==
    {f[i] : i \in DOMAIN f}

\* [a-zA-Z]
Letter ==
    Range(LowerChars) \cup Range(UpperChars)

\* \d
Digit ==
    Range(DigitChars)

\* \w
Word ==
    Letter \cup Digit \cup {"_"}

\* \s (the handler joins its arguments with single spaces)
Space ==
    {" "}

\* The value None of Python; no str equals it.
None ==
    <<"None">>

Min(S) ==
    CHOOSE x \in S : \A y \in S : x <= y

Max(S) ==
    CHOOSE x \in S : \A y \in S : x >= y

UpperLetter ==
    Range(UpperChars)

LowerLetter ==
    Range(LowerChars)

LowerChar(c) ==
    IF c \in UpperLetter
    THEN LowerChars[CHOOSE i \in DOMAIN UpperChars : UpperChars[i] = c]
    ELSE c

UpperChar(c) ==
    IF c \in LowerLetter
    THEN UpperChars[CHOOSE i \in DOMAIN LowerChars : LowerChars[i] = c]
    ELSE c

\* str.lower()
lower(s) ==
    [i \in DOMAIN s |-> LowerChar(s[i])]

\* str.upper()
upper(s) ==
    [i \in DOMAIN s |-> UpperChar(s[i])]

\* s.startswith(p)
startswith(s, p) ==
    /\ Len(p) <= Len(s)
    /\ SubSeq(s, 1, Len(p)) = p

\* s.endswith(p)
endswith(s, p) ==
    /\ Len(p) <= Len(s)
    /\ SubSeq(s, Len(s) - Len(p) + 1, Len(s)) = p

\* p in s  (substring test)
contains(s, p) ==
    \E i \in 1..(Len(s) - Len(p) + 1) : SubSeq(s, i, i + Len(p) - 1) = p

\* " ".join(parts)
RECURSIVE join(_)
join(parts) ==
    IF Len(parts) = 0 THEN <<>>
    ELSE IF Len(parts) = 1 THEN parts[1]
    ELSE parts[1] \o <<" ">> \o join(Tail(parts))

\* s.strip()
strip(s) ==
    LET keep == {i \in DOMAIN s : s[i] \notin Space}
    IN  IF keep = {} THEN <<>> ELSE SubSeq(s, Min(keep), Max(keep))

\* s.split(' ')[0]
split_first(s) ==
    LET sp == {i \in DOMAIN s : s[i] = " "}
    IN  IF sp = {} THEN s ELSE SubSeq(s, 1, Min(sp) - 1)

\* The end of the longest run of characters of class C that starts at i
\* (i - 1 when s[i] is not in C): what a greedy C* consumes from i.
RunEnd(s, i, C) ==
    CHOOSE j \in (i - 1)..Len(s) :
        /\ \A k \in i..j : s[k] \in C
        /\ j = Len(s) \/ s[j + 1] \notin C

\* \b before position i and after position j, for a match s[i..j] that
\* begins and ends with a word character.
BoundaryBefore(s, i) ==
    i = 1 \/ s[i - 1] \notin Word

BoundaryAfter(s, j) ==
    j = Len(s) \/ s[j + 1] \notin Word

-----------------------------------------------------------------------------
(* The pre-compiled regular expressions, src/MATT.py:141-146                *)

\* website_regex = \b\w+\b : search(...).group(0), None when there is no
\* word character.
website_regex(s) ==
    LET starts == {i \in DOMAIN s : s[i] \in Word}
    IN  IF starts = {} THEN None
        ELSE SubSeq(s, Min(starts), RunEnd(s, Min(starts), Word))

\* The start positions at which ([a-zA-Z]+/[a-zA-Z]+) matches.
match_starts(s) ==
    {i \in DOMAIN s :
        /\ s[i] \in Letter
        /\ LET e == RunEnd(s, i, Letter)
           IN  /\ e + 2 <= Len(s)
               /\ s[e + 1] = "/"
               /\ s[e + 2] \in Letter}

\* match_regex = ([a-zA-Z]+/[a-zA-Z]+) : search(...).group(0) or None.
match_regex(s) ==
    IF match_starts(s) = {} THEN None
    ELSE LET i == Min(match_starts(s))
             e == RunEnd(s, i, Letter)
         IN  SubSeq(s, i, RunEnd(s, e + 2, Letter))

TimeTags ==
    {<<"1", "h">>, <<"2", "h">>, <<"o", "t">>, <<"h", "t">>}

\* time_regex = \b(1h|2h|ot|ht)\b, IGNORECASE : the matched text or None.
time_regex(s) ==
    LET starts == {i \in DOMAIN s :
                      /\ i + 1 <= Len(s)
                      /\ lower(SubSeq(s, i, i + 1)) \in TimeTags
                      /\ BoundaryBefore(s, i)
                      /\ BoundaryAfter(s, i + 1)}
    IN  IF starts = {} THEN None
        ELSE SubSeq(s, Min(starts), Min(starts) + 1)

\* points_regex = [uo]\d+|[+-]\d+, IGNORECASE : the matched text or None.
points_regex(s) ==
    LET starts == {i \in DOMAIN s :
                      /\ i + 1 <= Len(s)
                      /\ LowerChar(s[i]) \in {"u", "o", "+", "-"}
                      /\ s[i + 1] \in Digit}
    IN  IF starts = {} THEN None
        ELSE SubSeq(s, Min(starts), RunEnd(s, Min(starts) + 1, Digit))

\* The end of \d+(\.\d+)? matched from position i, where s[i] is a digit.
NumberEnd(s, i) ==
    LET d == RunEnd(s, i, Digit)
    IN  IF d + 2 <= Len(s) /\ s[d + 1] = "." /\ s[d + 2] \in Digit
        THEN RunEnd(s, d + 2, Digit)
        ELSE d

\* odds_regex = @(\d+(\.\d+)?) : findall from position i, as the sequence
\* of the first groups (the code reads odds[n][0] only).
RECURSIVE odds_from(_, _)
odds_from(s, i) ==
    IF i > Len(s) THEN <<>>
    ELSE IF s[i] = "@" /\ i + 1 <= Len(s) /\ s[i + 1] \in Digit
         THEN <<SubSeq(s, i + 1, NumberEnd(s, i + 1))>>
                  \o odds_from(s, NumberEnd(s, i + 1) + 1)
         ELSE odds_from(s, i + 1)

odds_regex(s) ==
    odds_from(s, 1)

\* amount_currency_regex = @\d+(\.\d+)?\s+(\d+[kK]?\s*[A-Za-z]*) tried at
\* the "@" of position i: group(2), or None when it does not match there.
amount_currency_at(s, i) ==
    IF ~(s[i] = "@" /\ i + 1 <= Len(s) /\ s[i + 1] \in Digit) THEN None
    ELSE LET e  == NumberEnd(s, i + 1)
             sp == RunEnd(s, e + 1, Space)
         IN  IF ~(sp > e /\ sp + 1 <= Len(s) /\ s[sp + 1] \in Digit)
             THEN None
             ELSE LET a  == RunEnd(s, sp + 1, Digit)
                      k  == IF a + 1 <= Len(s) /\ s[a + 1] \in {"k", "K"}
                            THEN a + 1 ELSE a
                      ws == RunEnd(s, k + 1, Space)
                      le == RunEnd(s, ws + 1, Letter)
                  IN  SubSeq(s, sp + 1, le)

\* amount_currency_regex.search(s): group(2) of the leftmost match, or None.
amount_currency_regex(s) ==
    LET starts == {i \in DOMAIN s : amount_currency_at(s, i) # None}
    IN  IF starts = {} THEN None ELSE amount_currency_at(s, Min(starts))

\* re.search(r'\b[A-Za-z]{3}\b', s) : the matched text or None.
currency_regex(s) ==
    LET starts == {i \in DOMAIN s :
                      /\ i + 2 <= Len(s)
                      /\ \A k \in i..(i + 2) : s[k] \in Letter
                      /\ BoundaryBefore(s, i)
                      /\ BoundaryAfter(s, i + 2)}
    IN  IF starts = {} THEN None
        ELSE SubSeq(s, Min(starts), Min(starts) + 2)

-----------------------------------------------------------------------------
(* int() and '{:,}'.format()                                               *)

DigitVal(c) ==
    (CHOOSE i \in DOMAIN DigitChars : DigitChars[i] = c) - 1

\* int(s) accepts s when it is a non-empty run of digits (the texts the
\* amount pattern lets through hold digits and letters only).
IsInt(s) ==
    /\ Len(s) > 0
    /\ \A i \in DOMAIN s : s[i] \in Digit

RECURSIVE int(_)
int(s) ==
    IF Len(s) = 0 THEN 0
    ELSE 10 * int(SubSeq(s, 1, Len(s) - 1)) + DigitVal(s[Len(s)])

RECURSIVE str(_)
str(n) ==
    IF n < 10 THEN <<DigitChars[n + 1]>>
    ELSE str(n \div 10) \o <<DigitChars[(n % 10) + 1]>>

\* '{:,}'.format(n): a comma before every group of three digits.
RECURSIVE group_digits(_)
group_digits(d) ==
    IF Len(d) <= 3 THEN d
    ELSE group_digits(SubSeq(d, 1, Len(d) - 3))
             \o <<",">> \o SubSeq(d, Len(d) - 2, Len(d))

format_amount(n) ==
    group_digits(str(n))

-----------------------------------------------------------------------------
(* parse_bet_details, src/MATT.py:148-177                                  *)

Raise(exc, msg) ==
    [exc |-> exc, msg |-> msg]

\* Lines 165-177: the record built once the three checks have passed.
parse_fields(remaining_details, website, match) ==
    LET time_m    == time_regex(remaining_details)
        points_m  == points_regex(remaining_details)
        odds      == odds_regex(remaining_details)
        is_total  == contains(lower(remaining_details),
                              <<"t", "o", "t", "a", "l">>)
        time      == IF time_m # None THEN time_m ELSE <<>>
        points    == IF points_m # None THEN points_m ELSE <<>>
        bet_odds  == odds[1]
        correct_odds == IF Len(odds) > 1 THEN odds[2] ELSE <<"0">>
        amount_currency == strip(amount_currency_regex(remaining_details))
        amount_str == split_first(amount_currency)
        currency  == IF currency_regex(amount_currency) # None
                     THEN currency_regex(amount_currency)
                     ELSE <<"U", "S", "D">>
        digits    == IF endswith(amount_str, <<"k">>)
                     THEN SubSeq(amount_str, 1, Len(amount_str) - 1)
                     ELSE amount_str
        amount    == IF endswith(amount_str, <<"k">>)
                     THEN int(digits) * 1000
                     ELSE int(digits)
    IN  IF ~IsInt(digits)
        THEN Raise("ValueError", "invalid literal for int() with base 10")
        ELSE [exc          |-> "none",
              msg          |-> "",
              website      |-> IF is_total THEN <<"N", "/", "A">> ELSE website,
              match        |-> match,
              time         |-> upper(time),
              points       |-> upper(points),
              bet_odds     |-> bet_odds,
              correct_odds |-> correct_odds,
              amount       |-> format_amount(amount),
              currency     |-> upper(currency),
              is_total     |-> is_total]

parse_bet_details(bet_details) ==
    LET sp == {i \in DOMAIN bet_details : bet_details[i] = " "}
    IN  IF sp = {}
        THEN Raise("ValueError", "Invalid bet format.")
        ELSE LET remaining_details ==
                     SubSeq(bet_details, Min(sp) + 1, Len(bet_details))
                 website == website_regex(remaining_details)
                 match   == match_regex(remaining_details)
             IN  IF website = None \/ match = None
                 THEN Raise("AttributeError",
                            "'NoneType' object has no attribute 'group'")
                 ELSE IF \/ amount_currency_regex(remaining_details) = None
                         \/ Len(odds_regex(remaining_details)) < 1
                      THEN Raise("ValueError", "Invalid bet details.")
                      ELSE parse_fields(remaining_details, website, match)

-----------------------------------------------------------------------------
(* The ledger: one month's worksheet, columns A:K                          *)

\* Columns A..K of the range "A:K" and of the header list.
NumCols ==
    11

headers ==
    <<<<"D", "a", "t", "e">>,
      <<"M", "a", "t", "c", "h">>,
      <<"A", "m", "o", "u", "n", "t">>,
      <<"P", "l", "a", "t", "f", "o", "r", "m">>,
      <<"O", "d", "d", "s">>,
      <<"C", "o", "r", "r", "e", "c", "t", " ", "O", "d", "d", "s">>,
      <<"P", "r", "o", "f", "i", "t">>,
      <<"W", "i", "n", "/", "L", "o", "s", "e">>,
      <<"O", "u", "t", "c", "o", "m", "e", " ", "$">>,
      <<"P", "e", "s", "o">>,
      <<"T", "X", "T", " ", "2", "%", " ", "C", "O", "M", "S">>>>

\* datetime.now().strftime("%Y-%m-%d"), one day for the whole run.
current_date ==
    <<"2", "0", "2", "6", "-", "1", "1", "-", "0", "6">>

end_of_week_marker ==
    <<"E", "n", "d", " ", "o", "f", " ", "W", "e", "e", "k">>

\* The four formula texts, cut to their leading characters.  Their cell
\* references are to the row they are written in, and the spreadsheet
\* keeps them so when rows shift.
outcome_formula ==
    <<"=", "I", "F", "(", "H">>

profit_formula ==
    <<"=", "I", "F", "(", "A", "N", "D", "(", "H">>

peso_formula ==
    <<"=", "T", "E", "X", "T", "(", "I">>

coms_formula ==
    <<"=", "I", "F", "(", "D">>

\* A worksheet row with no value in any of its cells.
BlankRow ==
    [c \in 1..NumCols |-> <<>>]

\* The worksheet is kept as its rows down to the last one that holds a
\* value; every row below is blank.
Normalize(g) ==
    LET used == {i \in DOMAIN g : g[i] # BlankRow}
    IN  IF used = {} THEN <<>> ELSE SubSeq(g, 1, Max(used))

\* One row of the 'values' of a read: the cells to the last non-empty one.
TrimRow(r) ==
    LET used == {c \in DOMAIN r : r[c] # <<>>}
    IN  IF used = {} THEN <<>> ELSE SubSeq(r, 1, Max(used))

\* sheet.values().get(range="A:K").execute().get('values', [])
values_get(g) ==
    [i \in DOMAIN g |-> TrimRow(g[i])]

\* sheet.values().update(range="<col><row>", body={"values": [values]})
values_update(g, row, col, values) ==
    LET h == g \o [i \in 1..(row - Len(g)) |-> BlankRow]
    IN  Normalize([h EXCEPT ![row] =
                      [c \in 1..NumCols |->
                          IF c \in col..(col + Len(values) - 1)
                          THEN values[c - col + 1]
                          ELSE @[c]]])

\* batchUpdate insertRange of the row startRowIndex = row - 1, shifting the
\* rows at and below it down.
insertRange(g, row) ==
    IF row > Len(g) THEN g
    ELSE SubSeq(g, 1, row - 1) \o <<BlankRow>> \o SubSeq(g, row, Len(g))

\* One call to the spreadsheet service applied to the worksheet.
ApplyCall(g, call) ==
    CASE call.api = "insertRange" -> insertRange(g, call.row)
      [] call.api = "update"      ->
             values_update(g, call.row, call.col, call.values)
      [] OTHER                    -> g

RECURSIVE ApplyCalls(_, _)
ApplyCalls(g, calls) ==
    IF calls = <<>> THEN g
    ELSE ApplyCalls(ApplyCall(g, Head(calls)), Tail(calls))

\* initialize_google_sheets: the header row is written when A1:K1 is
\* empty (sheet creation, validation and colours hold no cell value).
initialize_google_sheets(g) ==
    IF Len(g) = 0 \/ TrimRow(g[1]) = <<>>
    THEN values_update(g, 1, 1, headers)
    ELSE g

-----------------------------------------------------------------------------
(* save_bet_to_google_sheets, src/MATT.py:179-245                          *)

\* Lines 190-194: the 0-based index of the last "End of Week" marker, -1
\* when there is none.
last_end_of_week_index(rows) ==
    LET marks == {i \in 0..(Len(rows) - 1) :
                     /\ rows[i + 1] # <<>>
                     /\ startswith(lower(rows[i + 1][1]),
                                   <<"e", "n", "d", " ", "o", "f">>)}
    IN  IF marks = {} THEN -1 ELSE Max(marks)

\* The loop of lines 198-203 without its break: the last matching row
\* decides for a total bet too.
RECURSIVE scan_matches_no_break(_, _, _, _, _)
scan_matches_no_break(rows, i, match, is_total, row_position) ==
    IF i >= Len(rows) THEN row_position
    ELSE IF Len(rows[i + 1]) > 1 /\ contains(rows[i + 1][2], match)
         THEN scan_matches_no_break(rows, i + 1, match, is_total,
                                    IF is_total THEN i + 1 ELSE i + 2)
         ELSE scan_matches_no_break(rows, i + 1, match, is_total,
                                    row_position)

\* Lines 198-203: the loop from index i on, with row_position as the
\* iterations before i left it.
RECURSIVE scan_matches(_, _, _, _, _)
scan_matches(rows, i, match, is_total, row_position) ==
    IF i >= Len(rows) THEN row_position
    ELSE IF Len(rows[i + 1]) > 1 /\ contains(rows[i + 1][2], match)
                                 /\ is_total
         THEN i + 1
         ELSE IF Len(rows[i + 1]) > 1 /\ contains(rows[i + 1][2], match)
              THEN scan_matches(rows, i + 1, match, is_total, i + 2)
              ELSE scan_matches(rows, i + 1, match, is_total, row_position)

\* Lines 197-203 with the loop started at the top of the worksheet, the
\* last marker ignored.
find_row_position_whole_sheet(rows, match, is_total) ==
    scan_matches(rows, 0, match, is_total, Len(rows) + 1)

\* Lines 197-203.
find_row_position(rows, match, is_total) ==
    scan_matches(rows, last_end_of_week_index(rows) + 1, match, is_total,
                 Len(rows) + 1)

\* Line 206 with the test dropped: a row is inserted before every write,
\* as end_of_week does.
insert_needed_always(row_position, rows) ==
    TRUE

\* Line 206 with < for <=.
insert_needed_strict(row_position, rows) ==
    row_position < Len(rows)

\* Line 206: whether a row is inserted before the write.
insert_needed(row_position, rows) ==
    row_position <= Len(rows)

\* Line 184.
bet_row(website, odds, correct_odds, amount, user_input) ==
    <<current_date, user_input, amount, upper(website), odds, correct_odds,
      <<>>, <<>>, <<>>>>

\* Lines 206-238: the calls that change the worksheet, in the order the
\* code makes them.
save_calls(rows, row_position, row) ==
    (IF insert_needed(row_position, rows)
     THEN <<[api |-> "insertRange", row |-> row_position]>>
     ELSE <<>>)
    \o <<[api |-> "update", row |-> row_position, col |-> 1,
          values |-> row],
         [api |-> "update", row |-> row_position, col |-> 9,
          values |-> <<outcome_formula>>],
         [api |-> "update", row |-> row_position, col |-> 7,
          values |-> <<profit_formula>>],
         [api |-> "update", row |-> row_position, col |-> 10,
          values |-> <<peso_formula>>],
         [api |-> "update", row |-> row_position, col |-> 11,
          values |-> <<coms_formula>>]>>

-----------------------------------------------------------------------------
(* end_of_week, src/MATT.py:278-349                                        *)

\* Line 283 without its + 1.
end_row_position_last_row(rows) ==
    Len(rows)

\* Line 283.
end_row_position(rows) ==
    Len(rows) + 1

\* Lines 285-342.
end_calls(row_position) ==
    <<[api |-> "insertRange", row |-> row_position],
      [api |-> "update", row |-> row_position, col |-> 1,
       values |-> <<end_of_week_marker>>],
      [api |-> "repeatCell", row |-> row_position],
      [api |-> "update", row |-> row_position + 1, col |-> 1,
       values |-> headers],
      [api |-> "repeatCell", row |-> row_position + 1]>>

-----------------------------------------------------------------------------
(* Inputs                                                                  *)

\* The rows a worksheet is let grow to.
MaxRows ==
    6

Platforms ==
    {<<"B", "e", "t", "3", "6", "5">>, <<"b", "k">>}

MatchLabels ==
    {<<"T", "e", "a", "m", "A", "/", "T", "e", "a", "m", "B">>,
     <<"a", "/", "b">>}

OddsValues ==
    {<<"1", ".", "8", "5">>, <<"2">>}

AmountPrefixes ==
    {<<"5">>, <<"2">>, <<"7", "5", "0">>}

AmountSuffixes ==
    {<<>>, <<"k">>, <<"K">>}

Currencies ==
    {<<"U", "S", "D">>, <<"P", "H", "P">>}

\* The tokens joined by single spaces, an empty token being left out.
join_tokens(tokens) ==
    join(SelectSeq(tokens, LAMBDA t : t # <<>>))

\* Texts given to parse_bet_details: a command word, then a platform and,
\* each present or absent, a match label, a period tag, a points line,
\* the odds, the amount with its suffix, and a currency.
ParseInputs ==
    {<<"b", "e", "t">>} \cup
    {join_tokens(<<<<"b", "e", "t">>, pl, m, t, pt,
                   IF o = <<>> THEN <<>> ELSE <<"@">> \o o,
                   IF a = <<>> THEN <<>> ELSE a \o suf,
                   c>>) :
        pl \in Platforms,
        m \in MatchLabels \cup {<<>>},
        t \in {<<"1", "h">>, <<>>},
        pt \in {<<"o", "2", ".", "5">>, <<>>},
        o \in OddsValues \cup {<<>>},
        a \in AmountPrefixes \cup {<<>>},
        suf \in AmountSuffixes,
        c \in Currencies \cup {<<>>}}

\* Texts of /bet commands as the handler receives them (the arguments
\* joined by spaces): four well-formed bets, then one text for each way
\* of being malformed.
U_ab ==
    <<"b", "k", " ", "a", "/", "b", " ", "@", "2", " ", "5", "k">>

U_aabb ==
    <<"b", "k", " ", "a", "a", "/", "b", "b", " ", "@", "2", " ", "5", "k">>

U_cd ==
    <<"b", "k", " ", "c", "/", "d", " ", "@", "1", ".", "8", "5", " ",
      "7", "5", "0", " ", "P", "H", "P">>

U_ab_total ==
    <<"b", "k", " ", "a", "/", "b", " ", "t", "o", "t", "a", "l", " ",
      "@", "2", " ", "5", "k">>

U_one_token ==
    <<"b", "k">>

U_no_match ==
    <<"b", "k", " ", "@", "2", " ", "5", "k">>

U_no_amount ==
    <<"b", "k", " ", "a", "/", "b", " ", "@", "2">>

U_no_odds ==
    <<"b", "k", " ", "a", "/", "b", " ", "5", "k">>

WellFormedTexts ==
    {U_ab, U_aabb, U_cd, U_ab_total}

MalformedTexts ==
    {U_one_token, U_no_match, U_no_amount, U_no_odds}

BetTexts ==
    WellFormedTexts \cup MalformedTexts

\* parse_bet_details on each text of BetTexts, computed once.
parse_of ==
    [u \in BetTexts |-> parse_bet_details(u)]

-----------------------------------------------------------------------------
(* State                                                                   *)

VARIABLES
    sheet,          \* the worksheet of the current month
    cmd,            \* the handler that ran last
    user_input,     \* bet: " ".join(context.args)
    rows,           \* the rows the last handler read
    row_position,   \* the row the last handler wrote at
    calls,          \* the worksheet-changing calls the last handler completed
    reply,          \* the text of the last reply_text
    bet_details,    \* the argument of parse_bet_details
    parsed,         \* what parse_bet_details returned or raised
    proc            \* the bet handlers that run at the same time

vars ==
    <<sheet, cmd, user_input, rows, row_position, calls, reply,
      bet_details, parsed, proc>>

Welcome ==
    <<"Welcome to the Betting Bot!">>

BetSaved ==
    <<"Bet saved successfully!">>

UnexpectedError ==
    <<"An unexpected error occurred. Please try again later.">>

EndAdded ==
    <<"End of Week marker and headers added successfully.">>

EndFailed ==
    <<"An error occurred while adding the End of Week marker and headers.">>

Pending ==
    Raise("pending", "")

\* The names of the calls, as recorded in `calls`.
ApiNames(cs) ==
    [i \in DOMAIN cs |-> cs[i].api]

\* The handlers that may run at the same time.
Procs ==
    {"p1", "p2"}

Idle ==
    [pc |-> "idle", user_input |-> <<>>, rows |-> <<>>, row_position |-> 0,
     todo |-> <<>>]

Init ==
    /\ proc = [p \in Procs |-> Idle]
    /\ sheet = <<>>
    /\ cmd = "none"
    /\ user_input = <<>>
    /\ rows = <<>>
    /\ row_position = 0
    /\ calls = <<>>
    /\ reply = <<>>
    /\ bet_details = <<>>
    /\ parsed = Pending

-----------------------------------------------------------------------------
(* The handlers, each run to its end with every call succeeding            *)

\* start, src/MATT.py:247-253
start ==
    /\ cmd' = "start"
    /\ reply' = Welcome
    /\ user_input' = <<>>
    /\ rows' = <<>>
    /\ row_position' = 0
    /\ calls' = <<>>
    /\ UNCHANGED <<sheet, bet_details, parsed, proc>>

\* bet, src/MATT.py:255-276, when parse_bet_details raises.
bet_rejected(u) ==
    \E p \in {parse_of[u]} :
      /\ p.exc # "none"
      /\ cmd' = "bet"
      /\ user_input' = u
      /\ reply' = IF p.exc = "ValueError"
                  THEN <<"Error: ", p.msg>>
                  ELSE UnexpectedError
      /\ rows' = <<>>
      /\ row_position' = 0
      /\ calls' = <<>>
      /\ UNCHANGED <<sheet, bet_details, parsed, proc>>

\* Line 259: the platform written to the row is the first argument.
bet_website(u, p) ==
    IF ~p.is_total THEN split_first(u) ELSE <<"N", "/", "A">>

\* bet with save_bet_to_google_sheets, when the text parses.
bet_saved(u) ==
    \E p \in {parse_of[u]} :
      /\ p.exc = "none"
      /\ \E g \in {initialize_google_sheets(sheet)} :
         \E rs \in {values_get(g)} :
         \E pos \in {find_row_position(rs, p.match, p.is_total)} :
         \E cs \in {save_calls(rs, pos,
                               bet_row(bet_website(u, p), p.bet_odds,
                                       p.correct_odds, p.amount, u))} :
           /\ Len(g) < MaxRows
           /\ cmd' = "bet"
           /\ user_input' = u
           /\ rows' = rs
           /\ row_position' = pos
           /\ calls' = ApiNames(cs)
           /\ sheet' = ApplyCalls(g, cs)
           /\ reply' = BetSaved
           /\ UNCHANGED <<bet_details, parsed, proc>>

bet(u) ==
    \/ bet_rejected(u)
    \/ bet_saved(u)

\* end_of_week, src/MATT.py:278-349
end_of_week ==
    \E g \in {initialize_google_sheets(sheet)} :
    \E rs \in {values_get(g)} :
    \E pos \in {end_row_position(rs)} :
    \E cs \in {end_calls(pos)} :
      /\ Len(g) + 1 < MaxRows
      /\ cmd' = "end"
      /\ user_input' = <<>>
      /\ rows' = rs
      /\ row_position' = pos
      /\ calls' = ApiNames(cs)
      /\ sheet' = ApplyCalls(g, cs)
      /\ reply' = EndAdded
      /\ UNCHANGED <<bet_details, parsed, proc>>

Next ==
    \/ start
    \/ \E u \in BetTexts : bet(u)
    \/ end_of_week

Spec ==
    Init /\ [][Next]_vars

-----------------------------------------------------------------------------
(* The parser on its own, over ParseInputs                                 *)

InitParse ==
    /\ proc = [p \in Procs |-> Idle]
    /\ bet_details \in ParseInputs
    /\ parsed = Pending
    /\ sheet = <<>>
    /\ cmd = "none"
    /\ user_input = <<>>
    /\ rows = <<>>
    /\ row_position = 0
    /\ calls = <<>>
    /\ reply = <<>>

parse_step ==
    /\ parsed = Pending
    /\ parsed' = parse_bet_details(bet_details)
    /\ UNCHANGED <<sheet, cmd, user_input, rows, row_position, calls,
                   reply, bet_details, proc>>

NextParse ==
    parse_step

SpecParse ==
    InitParse /\ [][NextParse]_vars

-----------------------------------------------------------------------------
(* Properties of the placement, under Spec                                 *)

\* The 1-based index of the last row whose first cell starts, in any case,
\* with "end of"; 0 when there is none.
Boundary(rs) ==
    Max({0} \cup {i \in DOMAIN rs :
                     /\ Len(rs[i]) >= 1
                     /\ startswith(lower(rs[i][1]),
                                   <<"e", "n", "d", " ", "o", "f">>)})

\* The 1-based indexes of the rows after the boundary whose second cell
\* contains the match label m.
MatchingRows(rs, m) ==
    {i \in DOMAIN rs :
        /\ i > Boundary(rs)
        /\ Len(rs[i]) >= 2
        /\ contains(rs[i][2], m)}

\* The worksheet is the rows read with one row more at index p: the rows
\* above p kept their index, those at and below p moved down by one.
InsertedAt(p) ==
    /\ Len(sheet) = Len(rows) + 1
    /\ p \in 1..Len(sheet)
    /\ \A i \in DOMAIN rows :
           TrimRow(sheet[IF i < p THEN i ELSE i + 1]) = rows[i]

SavedBet ==
    cmd = "bet" /\ reply = BetSaved

LastMatch ==
    parse_of[user_input].match

LastIsTotal ==
    parse_of[user_input].is_total

\* C1: a saved non-total bet is placed one row below the last row that
\* lies after the last "end of" row and contains the match label in its
\* second cell, and at (row count) + 1 when there is no such row; a row
\* is inserted exactly when the target is within the rows read, and the
\* rows at and below the target then move down by one.
C1_NonTotalPlacement ==
    (SavedBet /\ ~LastIsTotal) =>
        /\ row_position =
               IF MatchingRows(rows, LastMatch) = {}
               THEN Len(rows) + 1
               ELSE Max(MatchingRows(rows, LastMatch)) + 1
        /\ ("insertRange" \in Range(calls)) <=> (row_position <= Len(rows))
        /\ InsertedAt(row_position)
        /\ sheet[row_position][2] = user_input

\* C1 witness: behind a marker, a bet went in between its match group
\* and a later row.
C1_Witness ==
    /\ SavedBet /\ ~LastIsTotal
    /\ Boundary(rows) > 0
    /\ MatchingRows(rows, LastMatch) # {}
    /\ row_position <= Len(rows)
    /\ "insertRange" \in Range(calls)

RowLabel(r) ==
    IF Len(r) >= 2 /\ r[2] \in WellFormedTexts
    THEN parse_of[r[2]].match
    ELSE None

IsMarker(r) ==
    /\ Len(r) >= 1
    /\ startswith(lower(r[1]), <<"e", "n", "d", " ", "o", "f">>)

\* Within a week segment no row of another match label lies between two
\* rows of the same match label.
Grouped(rs) ==
    \A i, j, k \in DOMAIN rs :
        (/\ i < j /\ j < k
         /\ \A x \in i..k : ~IsMarker(rs[x])
         /\ RowLabel(rs[i]) # None
         /\ RowLabel(rs[i]) = RowLabel(rs[k])
         /\ RowLabel(rs[j]) # None)
        => RowLabel(rs[j]) = RowLabel(rs[i])

\* C3: after any sequence of serially executed commands the rows of one
\* match label are adjacent within every week segment.
C3_Grouping ==
    Grouped(values_get(sheet))

\* The four ways of being malformed, read off the text.
Remaining(u) ==
    SubSeq(u, Len(split_first(u)) + 2, Len(u))

FewerThanTwoTokens(u) ==
    \A i \in DOMAIN u : u[i] # " "

Malformed(u) ==
    \/ FewerThanTwoTokens(u)
    \/ match_starts(Remaining(u)) = {}
    \/ amount_currency_regex(Remaining(u)) = None
    \/ odds_regex(Remaining(u)) = <<>>

malformed_of ==
    [u \in BetTexts |-> Malformed(u)]

\* C4: a malformed bet text is answered with the "Error: ..." reply, never
\* with the retry-later message.
C4_MalformedIsInputError ==
    (cmd = "bet" /\ malformed_of[user_input]) =>
        /\ Len(reply) = 2
        /\ reply[1] = "Error: "

MarkerCount(rs) ==
    Cardinality({i \in DOMAIN rs : IsMarker(rs[i])})

\* C8: end_of_week on n rows writes the marker at n + 1 and the headers
\* at n + 2 and leaves rows 1..n as they were; every call adds one more
\* marker, and the newest marker is the one the next placement scans from.
C8_EndOfWeekAppends ==
    cmd = "end" =>
        /\ Len(sheet) = Len(rows) + 2
        /\ TrimRow(sheet[Len(rows) + 1]) = <<end_of_week_marker>>
        /\ sheet[Len(rows) + 2] = headers
        /\ \A i \in DOMAIN rows : TrimRow(sheet[i]) = rows[i]
        /\ MarkerCount(values_get(sheet)) = MarkerCount(rows) + 1
        /\ last_end_of_week_index(values_get(sheet)) + 1 = Len(rows) + 1

\* C8 witness: end_of_week ran straight after an earlier end_of_week, and
\* the worksheet holds two markers.
C8_Witness ==
    /\ cmd = "end"
    /\ MarkerCount(rows) >= 1
    /\ Boundary(rows) = Len(rows) - 1
    /\ MarkerCount(values_get(sheet)) = 2

\* C10: with every call succeeding, a saved bet adds exactly one row and
\* end_of_week exactly two; the rows that were there keep their contents
\* and order, and a bet leaves the rows down to the last marker in place.
C10_NoBetLost ==
    /\ SavedBet =>
           /\ Len(sheet) = Len(rows) + 1
           /\ \E p \in DOMAIN sheet :
                  /\ p > Boundary(rows)
                  /\ values_get(SubSeq(sheet, 1, p - 1)
                                  \o SubSeq(sheet, p + 1, Len(sheet))) = rows
    /\ cmd = "end" =>
           /\ Len(sheet) = Len(rows) + 2
           /\ values_get(SubSeq(sheet, 1, Len(rows))) = rows

\* C10 witness: a total bet saved behind a marker where a row of its match
\* was present.
C10_Witness ==
    /\ SavedBet /\ LastIsTotal
    /\ Boundary(rows) > 0
    /\ MatchingRows(rows, LastMatch) # {}

-----------------------------------------------------------------------------
(* Properties of the parser, under SpecParse                               *)

\* The number a formatted amount stands for.
amount_value(a) ==
    int(SelectSeq(a, LAMBDA c : c # ","))

\* C5: every text `<cmd> <platform> <A>/<B> @<odds> <amount><suffix>
\* <currency>` with suffix empty, k or K parses, and the platform, match
\* label, odds and currency come back as written and the amount as the
\* numeric prefix, times 1000 under a k or K suffix.
C5_WellFormedRecovered ==
    \A pl \in Platforms, m \in MatchLabels, o \in OddsValues,
       a \in AmountPrefixes, suf \in AmountSuffixes, c \in Currencies :
        (/\ parsed # Pending
         /\ bet_details = join(<<<<"b", "e", "t">>, pl, m, <<"@">> \o o,
                                 a \o suf, c>>))
        => /\ parsed.exc = "none"
           /\ parsed.website = pl
           /\ parsed.match = m
           /\ parsed.bet_odds = o
           /\ parsed.currency = c
           /\ amount_value(parsed.amount) =
                  int(a) * (IF suf = <<>> THEN 1 ELSE 1000)

C6_Input ==
    <<"b", "e", "t", " ", "B", "e", "t", "3", "6", "5", " ",
      "T", "e", "a", "m", "A", "/", "T", "e", "a", "m", "B", " ",
      "1", "h", " ", "o", "2", ".", "5", " ", "@", "1", ".", "8", "5", " ",
      "5", "k", " ", "U", "S", "D">>

\* C6: "bet Bet365 TeamA/TeamB 1h o2.5 @1.85 5k USD" parses to website
\* Bet365, match TeamA/TeamB, time 1H, points O2.5, odds 1.85, correct
\* odds 0, amount 5,000, currency USD, not a total.
C6_ExampleParse ==
    (parsed # Pending /\ bet_details = C6_Input) =>
        parsed = [exc          |-> "none",
                  msg          |-> "",
                  website      |-> <<"B", "e", "t", "3", "6", "5">>,
                  match        |-> <<"T", "e", "a", "m", "A", "/",
                                     "T", "e", "a", "m", "B">>,
                  time         |-> <<"1", "H">>,
                  points       |-> <<"O", "2", ".", "5">>,
                  bet_odds     |-> <<"1", ".", "8", "5">>,
                  correct_odds |-> <<"0">>,
                  amount       |-> <<"5", ",", "0", "0", "0">>,
                  currency     |-> <<"U", "S", "D">>,
                  is_total     |-> FALSE]

-----------------------------------------------------------------------------
(* The handlers when a call to the spreadsheet service raises              *)

\* The rows a worksheet is let grow to where calls may fail.
MaxFailRows ==
    4

FailTexts ==
    {U_ab, U_cd, U_no_odds}

\* bet when the call number f of save_bet_to_google_sheets raises: 0 is
\* initialize_google_sheets before it wrote anything, 1 the read of line
\* 187, and f >= 2 the call cs[f - 1] of lines 206-238.  The calls before
\* it were made and stay made; the except of line 242 re-raises and bet
\* answers with the retry-later text (line 276).
bet_fails(u, f) ==
    \E p \in {parse_of[u]} :
      /\ p.exc = "none"
      /\ \E g \in {initialize_google_sheets(sheet)} :
         \E rs \in {values_get(g)} :
         \E pos \in {find_row_position(rs, p.match, p.is_total)} :
         \E cs \in {save_calls(rs, pos,
                               bet_row(bet_website(u, p), p.bet_odds,
                                       p.correct_odds, p.amount, u))} :
           /\ Len(g) < MaxFailRows
           /\ f <= Len(cs) + 1
           /\ cmd' = "bet"
           /\ user_input' = u
           /\ rows' = IF f >= 2 THEN rs ELSE <<>>
           /\ row_position' = IF f >= 2 THEN pos ELSE 0
           /\ calls' = IF f >= 2 THEN ApiNames(SubSeq(cs, 1, f - 2))
                       ELSE <<>>
           /\ sheet' = IF f = 0 THEN sheet
                       ELSE IF f = 1 THEN g
                       ELSE ApplyCalls(g, SubSeq(cs, 1, f - 2))
           /\ reply' = UnexpectedError
           /\ UNCHANGED <<bet_details, parsed, proc>>

\* end_of_week when its call number f raises, numbered as for bet; the
\* except of line 347 answers with the failure text.
end_of_week_fails(f) ==
    \E g \in {initialize_google_sheets(sheet)} :
    \E rs \in {values_get(g)} :
    \E pos \in {end_row_position(rs)} :
    \E cs \in {end_calls(pos)} :
      /\ Len(g) + 1 < MaxFailRows
      /\ f <= Len(cs) + 1
      /\ cmd' = "end"
      /\ user_input' = <<>>
      /\ rows' = IF f >= 2 THEN rs ELSE <<>>
      /\ row_position' = IF f >= 2 THEN pos ELSE 0
      /\ calls' = IF f >= 2 THEN ApiNames(SubSeq(cs, 1, f - 2)) ELSE <<>>
      /\ sheet' = IF f = 0 THEN sheet
                  ELSE IF f = 1 THEN g
                  ELSE ApplyCalls(g, SubSeq(cs, 1, f - 2))
      /\ reply' = EndFailed
      /\ UNCHANGED <<bet_details, parsed, proc>>

NextFail ==
    \/ start
    \/ \E u \in FailTexts : Len(sheet) < MaxFailRows /\ bet(u)
    \/ Len(sheet) < MaxFailRows /\ end_of_week
    \/ \E u \in FailTexts : \E f \in 0..7 : bet_fails(u, f)
    \/ \E f \in 0..6 : end_of_week_fails(f)

SpecFail ==
    Init /\ [][NextFail]_vars

\* C7: a bet command that fails, at the parse or at any one call to the
\* spreadsheet service, leaves the worksheet as it was before the command
\* (apart from the header row that initialize_google_sheets writes on an
\* empty worksheet): no blank inserted row, no row short of its formulas.
C7_FailedBetLeavesLedger ==
    [][(cmd' = "bet" /\ reply' # BetSaved)
           => sheet' \in {sheet, initialize_google_sheets(sheet)}]_vars

-----------------------------------------------------------------------------
(* Two bet handlers whose calls to the spreadsheet service interleave      *)

\* The rows a worksheet is let grow to where handlers run at once.
MaxConcRows ==
    4

ConcTexts ==
    {U_ab, U_cd}

InFlight ==
    {p \in Procs : proc[p].pc \notin {"idle", "done"}}

\* bet is called and parses its text (lines 256-259).
c_begin(p, u) ==
    /\ proc[p].pc \in {"idle", "done"}
    /\ parse_of[u].exc = "none"
    /\ Len(sheet) + Cardinality(InFlight) < MaxConcRows
    /\ proc' = [proc EXCEPT ![p] = [Idle EXCEPT !.pc = "initialize",
                                                !.user_input = u]]
    /\ UNCHANGED <<sheet, cmd, user_input, rows, row_position, calls,
                   reply, bet_details, parsed>>

\* Line 181.
c_initialize(p) ==
    /\ proc[p].pc = "initialize"
    /\ sheet' = initialize_google_sheets(sheet)
    /\ proc' = [proc EXCEPT ![p].pc = "get"]
    /\ UNCHANGED <<cmd, user_input, rows, row_position, calls, reply,
                   bet_details, parsed>>

\* Lines 187-203: the read, and the placement computed from it.
c_get(p) ==
    /\ proc[p].pc = "get"
    /\ \E u \in {proc[p].user_input} :
       \E d \in {parse_of[u]} :
       \E rs \in {values_get(sheet)} :
       \E pos \in {find_row_position(rs, d.match, d.is_total)} :
       \E cs \in {save_calls(rs, pos,
                             bet_row(bet_website(u, d), d.bet_odds,
                                     d.correct_odds, d.amount, u))} :
         proc' = [proc EXCEPT ![p] =
                     [pc |-> "calls", user_input |-> u, rows |-> rs,
                      row_position |-> pos, todo |-> cs]]
    /\ UNCHANGED <<sheet, cmd, user_input, rows, row_position, calls,
                   reply, bet_details, parsed>>

\* Lines 206-238: the next of the calls that change the worksheet; after
\* the last one the handler replies and is done.
c_call(p) ==
    /\ proc[p].pc = "calls"
    /\ sheet' = ApplyCall(sheet, Head(proc[p].todo))
    /\ proc' = [proc EXCEPT ![p].todo = Tail(@),
                            ![p].pc = IF Len(proc[p].todo) = 1
                                      THEN "done" ELSE "calls"]
    /\ UNCHANGED <<cmd, user_input, rows, row_position, calls, reply,
                   bet_details, parsed>>

NextConc ==
    \/ \E p \in Procs : \E u \in ConcTexts : c_begin(p, u)
    \/ \E p \in Procs : c_initialize(p)
    \/ \E p \in Procs : c_get(p)
    \/ \E p \in Procs : c_call(p)

SpecConc ==
    Init /\ [][NextConc]_vars

\* The rows that hold a value.
UsedRows(g) ==
    Cardinality({i \in DOMAIN g : TrimRow(g[i]) # <<>>})

\* C9: nothing guards the read-then-write sequence: when two bet handlers
\* have read the same rows and both computed the row below them as their
\* target, both complete, yet the worksheet has gained one row only, and
\* that row holds the text of one of the two bets.
C9_LostUpdate ==
    \A p, q \in Procs :
        (/\ p # q
         /\ proc[p].pc = "done"
         /\ proc[q].pc = "done"
         /\ proc[p].rows = proc[q].rows
         /\ proc[p].row_position = Len(proc[p].rows) + 1
         /\ proc[q].row_position = Len(proc[q].rows) + 1)
        => /\ UsedRows(sheet) = UsedRows(proc[p].rows) + 1
           /\ sheet[proc[p].row_position][2]
                  \in {proc[p].user_input, proc[q].user_input}

\* C9 witness: two bets on different matches both completed from the same
\* read with the same target, and the text of one of them is in no row.
C9_Witness ==
    \E p, q \in Procs :
        /\ p # q
        /\ proc[p].pc = "done"
        /\ proc[q].pc = "done"
        /\ proc[p].rows = proc[q].rows
        /\ proc[p].row_position = Len(proc[p].rows) + 1
        /\ proc[q].row_position = Len(proc[q].rows) + 1
        /\ proc[p].user_input # proc[q].user_input
        /\ \A i \in DOMAIN sheet : sheet[i][2] # proc[p].user_input

=============================================================================
